---- MODULE Spec2Model ----
(***************************************************************************)
(* Model of src/app.py: the Streamlit triage dashboard.  One script run    *)
(* per user action: the form submission (lines 69-118), the queue panel    *)
(* (lines 121-157) and the reset button with its st.rerun() (152-154).     *)
(*                                                                         *)
(* Number representations                                                  *)
(*   - temperatures, class labels and stored scores are in tenths          *)
(*     (36.5 is 365, the label 1.0 is 10, the score 26.2 is 262);          *)
(*   - a probability array is a sequence of naturals n, standing for the   *)
(*     probabilities n[i] / Total(n) (an all-zero array stands for zeros); *)
(*   - the unrounded risk score is the fraction <<num, den>>;              *)
(*   - a float quotient is a reduced fraction num/den of kind "finite",    *)
(*     or of kind "inf" / "nan" for a division by zero.                    *)
(***************************************************************************)
EXTENDS Integers, Sequences, FiniteSets, TLC

VARIABLES
    patient_list,   \* st.session_state.patient_list
    classes,        \* model.classes_ of the loaded classifier (fixed per process)
    form,           \* the widget values of patient_form at the last submission
    final_data,     \* the feature row handed to the classifier in the last run, <<>> if none
    proba,          \* predict_proba(...)[0] of the last run, <<>> if not obtained
    risk_score,     \* the unrounded risk_score of the last run, <<>> if not computed
    msg,            \* message of the input column in the last run
    view,           \* what the queue column shows after the last run
    pc              \* "idle", or "rerun" between the reset and the run st.rerun() starts

vars == <<patient_list, classes, form, final_data, proba, risk_score, msg, view, pc>>

\* ------------------------------------------------------------------ bounds

MaxPatients == 3

MaxProbaLen == 4

\* ------------------------------------------------------------- arithmetic

RECURSIVE GCD(_, _)
GCD(a, b) == IF b = 0 THEN a ELSE GCD(b, a % b)

\* pandas float division of two non-negative integer columns
Div(a, b) ==
    IF b = 0
    THEN [kind |-> IF a = 0 THEN "nan" ELSE "inf", num |-> 0, den |-> 0]
    ELSE [kind |-> "finite", num |-> a \div GCD(a, b), den |-> b \div GCD(a, b)]

\* int(x) of a number given in tenths: truncation toward zero
int(x) == IF x >= 0 THEN x \div 10 ELSE -((-x) \div 10)

RECURSIVE Total(_)
Total(s) == IF s = <<>> THEN 0 ELSE Head(s) + Total(Tail(s))

Den(p) == IF Total(p) = 0 THEN 1 ELSE Total(p)

\* round(num/den, 1) in tenths; an exact tie goes to the even tenth
round1(num, den) ==
    LET q == (10 * num) \div den
        r == (10 * num) % den
    IN  IF 2 * r < den THEN q
        ELSE IF 2 * r > den THEN q + 1
        ELSE IF q % 2 = 0 THEN q ELSE q + 1

\* ---------------------------------------------------------- the form

anchor_age_range == 0..120
temperature_y_range == 300..450
heartrate_y_range == 0..300
resprate_y_range == 0..100
o2sat_y_range == 0..100
sbp_y_range_zero == 0..300
sbp_y_range == 1..300
dbp_y_range == 0..200
pain_y_numeric_range == 0..10

\* what the number_input / slider widgets let through
WidgetOK(v) ==
    /\ v.anchor_age \in anchor_age_range
    /\ v.temperature_y \in temperature_y_range
    /\ v.heartrate_y \in heartrate_y_range
    /\ v.resprate_y \in resprate_y_range
    /\ v.o2sat_y \in o2sat_y_range
    /\ v.sbp_y \in sbp_y_range
    /\ v.dbp_y \in dbp_y_range
    /\ v.pain_y_numeric \in pain_y_numeric_range

Vitals(a, t, h, r, o, s, d, p) ==
    [anchor_age |-> a, temperature_y |-> t, heartrate_y |-> h, resprate_y |-> r,
     o2sat_y |-> o, sbp_y |-> s, dbp_y |-> d, pain_y_numeric |-> p]

\* what a user may type: corners of the ranges and values outside them
TypedVitals ==
    { Vitals(50, 365, 0, 20, 98, 1, 80, 0),
      Vitals(120, 450, 300, 100, 99, 200, 130, 10),
      Vitals(50, 365, 80, 20, 98, 0, 80, 0),
      Vitals(50, 365, 0, 20, 98, 0, 80, 0),
      Vitals(121, 365, 80, 20, 98, 120, 80, 0) }

FormVitals == {v \in TypedVitals : WidgetOK(v)}

DefaultVitals == Vitals(50, 365, 80, 20, 98, 120, 80, 0)

Names == {"", "kim"}

Times == {"09:00:00"}

\* ------------------------------------------------------- feature builder

cols ==
    <<"anchor_age", "temperature_y", "heartrate_y", "resprate_y",
      "o2sat_y", "sbp_y", "dbp_y", "pain_y_numeric", "shock_index_y">>

shock_index(v) == Div(v.heartrate_y, v.sbp_y)

input_data(v) ==
    [c \in {"anchor_age", "temperature_y", "heartrate_y", "resprate_y", "o2sat_y",
            "sbp_y", "dbp_y", "pain_y_numeric", "shock_index_y"} |->
        IF c = "shock_index_y" THEN shock_index(v) ELSE v[c]]

FinalData(v) == [i \in 1..Len(cols) |-> <<cols[i], input_data(v)[cols[i]]>>]

\* ------------------------------------------------------------ risk scorer

weights_typo == (1 :> 1000) @@ (2 :> 80) @@ (3 :> 60) @@ (4 :> 40) @@ (5 :> 20)

weights == (1 :> 100) @@ (2 :> 80) @@ (3 :> 60) @@ (4 :> 40) @@ (5 :> 20)

\* the weight the loop adds for position idx holding label level_class
TermWeightByPosition(idx, level_class) ==
    IF idx \in DOMAIN weights THEN weights[idx] ELSE 0

TermWeight(idx, level_class) ==
    IF int(level_class) \in DOMAIN weights THEN weights[int(level_class)] ELSE 0

TermUsed(idx, level_class) == int(level_class) \in DOMAIN weights

\* the loop of lines 101-106 from position idx on, acc the numerator so far;
\* proba[idx] beyond the array raises IndexError
RECURSIVE RiskLoop(_, _, _, _)
RiskLoop(cl, p, idx, acc) ==
    IF idx > Len(cl) THEN [ok |-> TRUE, num |-> acc]
    ELSE IF ~TermUsed(idx, cl[idx]) THEN RiskLoop(cl, p, idx + 1, acc)
    ELSE IF idx > Len(p) THEN [ok |-> FALSE, num |-> acc]
    ELSE RiskLoop(cl, p, idx + 1, acc + p[idx] * TermWeight(idx, cl[idx]))

Risk(cl, p) == RiskLoop(cl, p, 1, 0)

\* ------------------------------------------------------------- classifier

\* What predict / predict_proba may do on one call.  A conforming classifier
\* returns one probability per class of classes_, and predict's level is the
\* class of the first largest probability.
Raises == {[kind |-> "predict_raises", pred_level |-> 0, proba |-> <<>>],
           [kind |-> "proba_raises", pred_level |-> 0, proba |-> <<>>]}

RECURSIVE ArgMax(_, _, _)
ArgMax(p, i, best) ==
    IF i > Len(p) THEN best
    ELSE ArgMax(p, i + 1, IF p[i] > p[best] THEN i ELSE best)

Returns(cl, p) ==
    [kind |-> "ok",
     pred_level |-> IF p = <<>> \/ ArgMax(p, 1, 1) > Len(cl) THEN cl[1]
                    ELSE cl[ArgMax(p, 1, 1)],
     proba |-> p]

ClassLists == {<<10, 20, 30, 40, 50>>}

ProbaSamples ==
    {<<1, 0, 0, 0, 0>>, <<0, 0, 0, 0, 1>>, <<1, 1, 1, 1, 1>>, <<1, 0, 0, 1, 14>>}

Outcomes(cl) == Raises \cup {Returns(cl, p) : p \in ProbaSamples}

\* a classifier that may break the contract: labels that are floats or outside
\* 1..5, and a probability array of any length
ContractClassLists == {<<10, 20>>, <<50, 10>>, <<20, 60>>, <<15, -5>>, <<30, 10, 20>>}

ProbaArrays == UNION {[1..n -> 0..1] : n \in 0..MaxProbaLen}

ContractOutcomes(cl) == Raises \cup {Returns(cl, p) : p \in ProbaArrays}

\* --------------------------------------------------------- priority queue

\* the number of rows of s (sorted) that stay in front of a new row x
RowsBeforeUnstable(s, x) == Cardinality({i \in 1..Len(s) : s[i].score > x.score})

RowsBefore(s, x) == Cardinality({i \in 1..Len(s) : s[i].score >= x.score})

InsertDesc(s, x) ==
    SubSeq(s, 1, RowsBefore(s, x)) \o <<x>> \o SubSeq(s, RowsBefore(s, x) + 1, Len(s))

\* sorted(list, key=score, reverse=True): a stable sort, a new list
RECURSIVE sorted_list(_)
sorted_list(list) ==
    IF list = <<>> THEN <<>>
    ELSE InsertDesc(sorted_list(SubSeq(list, 1, Len(list) - 1)), list[Len(list)])

\* what sorted() leaves in the list it was given
StoredAfterSortInPlace(list) == sorted_list(list)

StoredAfterSort(list) == list

\* last character of "Level n"
LevelChar(level) == (IF level >= 0 THEN level ELSE -level) % 10

top_patient(rows) ==
    [name |-> rows[1].name, level |-> LevelChar(rows[1].level), score |-> rows[1].score]

NoView == [kind |-> "none", rows |-> <<>>, top |-> <<>>]

\* the queue column, lines 121-157 without the button
Render(list) ==
    IF Len(list) > 0
    THEN [kind |-> "table", rows |-> sorted_list(list),
          top |-> <<top_patient(sorted_list(list))>>]
    ELSE [kind |-> "info", rows |-> <<>>, top |-> <<>>]

RegisterFront(list, rec) == <<rec>> \o list

Register(list, rec) == Append(list, rec)

ClearedListDropFirst(list) == Tail(list)

ClearedList(list) == <<>>

\* ------------------------------------------------------------ submission

NameNeverMissing(p_name) == FALSE

NameMissing(p_name) == p_name = ""

\* how far a submission gets: "name" (rejected at line 70), "predict" or
\* "predict_proba" (the call raises), "risk" (IndexError at line 106), "done"
StageOf(p_name, out) ==
    IF NameMissing(p_name) THEN "name"
    ELSE IF out.kind = "predict_raises" THEN "predict"
    ELSE IF out.kind = "proba_raises" THEN "predict_proba"
    ELSE IF ~Risk(classes, out.proba).ok THEN "risk"
    ELSE "done"

new_patient(p_name, v, out, now) ==
    [name |-> p_name,
     arrival |-> now,
     level |-> int(out.pred_level),
     score |-> round1(Risk(classes, out.proba).num, Den(out.proba)),
     age |-> v.anchor_age,
     symptoms |-> <<v.pain_y_numeric, v.temperature_y>>]

\* the list when an exception leaves the script at line 90, 91 or 106
ListAtAbortPartial(list, p_name, v, now) ==
    Append(list, [name |-> p_name, arrival |-> now, level |-> 0, score |-> 0,
                  age |-> v.anchor_age,
                  symptoms |-> <<v.pain_y_numeric, v.temperature_y>>])

ListAtAbort(list, p_name, v, now) == list

\* the list after lines 69-118
ListAfterSubmit(list, p_name, v, out, now) ==
    CASE StageOf(p_name, out) = "name" -> list
      [] StageOf(p_name, out) = "done" -> Register(list, new_patient(p_name, v, out, now))
      [] OTHER -> ListAtAbort(list, p_name, v, now)

\* st.warning / st.success, or the exception Streamlit shows for a script
\* that raised
Message(stage) ==
    CASE stage = "name" -> "warning"
      [] stage = "done" -> "success"
      [] OTHER -> "exception"

\* the script reaches the queue column unless an exception ended the run
ReachesQueue(stage) == stage \in {"name", "done"}

Submit(p_name, v, out, now, cap) ==
    LET stage == StageOf(p_name, out)
        list == ListAfterSubmit(patient_list, p_name, v, out, now)
    IN  /\ pc = "idle"
        /\ Len(list) <= cap
        /\ form' = [p_name |-> p_name, vitals |-> v]
        /\ final_data' = IF stage = "name" THEN <<>> ELSE FinalData(v)
        /\ proba' = IF stage \in {"risk", "done"} THEN out.proba ELSE <<>>
        /\ risk_score' = IF stage = "done"
                         THEN <<Risk(classes, out.proba).num, Den(out.proba)>>
                         ELSE <<>>
        /\ msg' = Message(stage)
        /\ patient_list' = IF ReachesQueue(stage) THEN StoredAfterSort(list) ELSE list
        /\ view' = IF ReachesQueue(stage) THEN Render(list) ELSE NoView
        /\ pc' = "idle"
        /\ UNCHANGED classes

\* a click on the reset button: the run shows the queue, then empties the
\* list and asks for a rerun (lines 124-154)
Reset ==
    /\ pc = "idle"
    /\ view.kind = "table"
    /\ Len(patient_list) > 0
    /\ view' = Render(patient_list)
    /\ patient_list' = ClearedList(StoredAfterSort(patient_list))
    /\ msg' = "none"
    /\ final_data' = <<>>
    /\ proba' = <<>>
    /\ risk_score' = <<>>
    /\ pc' = "rerun"
    /\ UNCHANGED <<classes, form>>

\* the run st.rerun() starts: nothing submitted, nothing clicked
Rerun ==
    /\ pc = "rerun"
    /\ view' = Render(patient_list)
    /\ patient_list' = StoredAfterSort(patient_list)
    /\ msg' = "none"
    /\ final_data' = <<>>
    /\ proba' = <<>>
    /\ risk_score' = <<>>
    /\ pc' = "idle"
    /\ UNCHANGED <<classes, form>>

\* the state after the first run of a fresh session
FirstRun(cl) ==
    /\ classes = cl
    /\ patient_list = <<>>
    /\ form = [p_name |-> "", vitals |-> DefaultVitals]
    /\ final_data = <<>>
    /\ proba = <<>>
    /\ risk_score = <<>>
    /\ msg = "none"
    /\ view = Render(<<>>)
    /\ pc = "idle"

Init == \E cl \in ClassLists : FirstRun(cl)

SubmitForm ==
    \E p_name \in Names, v \in FormVitals, out \in Outcomes(classes), now \in Times :
        Submit(p_name, v, out, now, MaxPatients)

Next == SubmitForm \/ Reset \/ Rerun

Spec == Init /\ [][Next]_vars

\* the same session with a classifier that may break its contract
MaxContractPatients == 1

InitContract == \E cl \in ContractClassLists : FirstRun(cl)

SubmitContract ==
    \E p_name \in Names, out \in ContractOutcomes(classes) :
        Submit(p_name, DefaultVitals, out, "09:00:00", MaxContractPatients)

NextContract == SubmitContract \/ Reset \/ Rerun

SpecContract == InitContract /\ [][NextContract]_vars

\* ================================================================ claims

Perms(n) == {f \in [1..n -> 1..n] : \A i, j \in 1..n : f[i] = f[j] => i = j}

\* C1: whenever a run has drawn the queue (and no reset is half way), the view
\* holds exactly the stored records, by stored score descending, and records
\* of equal score in the order of their registration.
C1_SortedView ==
    (pc = "idle" /\ view.kind # "none") =>
        /\ (view.kind = "info") = (patient_list = <<>>)
        /\ Len(view.rows) = Len(patient_list)
        /\ \E f \in Perms(Len(patient_list)) :
            /\ \A i \in 1..Len(patient_list) : view.rows[i] = patient_list[f[i]]
            /\ \A i, j \in 1..Len(patient_list) :
                i < j => \/ view.rows[i].score > view.rows[j].score
                         \/ /\ view.rows[i].score = view.rows[j].score
                            /\ f[i] < f[j]

\* a drawn queue whose stored order is not the displayed order, with a tie
\* between two different records
C1_Witness ==
    /\ pc = "idle"
    /\ view.kind = "table"
    /\ view.rows # patient_list
    /\ \E i, j \in 1..Len(patient_list) :
        /\ i < j
        /\ patient_list[i].score = patient_list[j].score
        /\ patient_list[i] # patient_list[j]

\* C2: a submission with an empty name shows the warning, never reaches the
\* classifier (no feature row, no probabilities) and leaves the list as it was.
C2_EmptyNameRejected ==
    [][(msg' # "none" /\ form'.p_name = "") =>
            /\ msg' = "warning"
            /\ final_data' = <<>>
            /\ proba' = <<>>
            /\ risk_score' = <<>>
            /\ patient_list' = patient_list]_vars

C2_Witness == msg = "warning" /\ form.p_name = "" /\ Len(patient_list) >= 1

\* some submission of the form registers a record from the current state
CanRegister ==
    \E p_name \in Names, v \in FormVitals, out \in Outcomes(classes), now \in Times :
        /\ pc = "idle"
        /\ StageOf(p_name, out) = "done"
        /\ Len(ListAfterSubmit(patient_list, p_name, v, out, now)) = Len(patient_list) + 1
        /\ Len(ListAfterSubmit(patient_list, p_name, v, out, now)) <= MaxPatients

\* C3: when predict or predict_proba raises, the run ends with the exception
\* shown, the list is the list before the submission, and the session still
\* takes a submission that registers a record.
C3_ClassifierRaises ==
    [][(msg' = "exception" /\ proba' = <<>>) =>
            /\ patient_list' = patient_list
            /\ Len(patient_list') < MaxPatients => CanRegister']_vars

C3_Witness ==
    /\ msg = "exception"
    /\ final_data # <<>>
    /\ proba = <<>>
    /\ Len(patient_list) >= 1

\* the weight table as the claim states it
ClaimWeight(lvl) ==
    CASE lvl = 1 -> 100 [] lvl = 2 -> 80 [] lvl = 3 -> 60 [] lvl = 4 -> 40
      [] lvl = 5 -> 20 [] OTHER -> 0

RECURSIVE SumOver(_, _, _)
SumOver(S, cl, p) ==
    IF S = {} THEN 0
    ELSE LET i == CHOOSE x \in S : TRUE
         IN  p[i] * ClaimWeight(int(cl[i])) + SumOver(S \ {i}, cl, p)

Permuted(s, f) == [i \in 1..Len(s) |-> s[f[i]]]

\* C4: for a class list and a probability array of equal length the score is
\* the sum of proba[i] * weight(int(class[i])), and permuting both lists alike
\* gives the same score.
C4_WeightedSum ==
    (risk_score # <<>> /\ Len(proba) = Len(classes)) =>
        /\ risk_score[1] = SumOver(1..Len(classes), classes, proba)
        /\ risk_score[2] = Den(proba)
        /\ \A f \in Perms(Len(classes)) :
            Risk(Permuted(classes, f), Permuted(proba, f))
                = [ok |-> TRUE, num |-> risk_score[1]]

\* a score computed for labels out of ascending order with unequal probabilities
C4_Witness ==
    /\ risk_score # <<>>
    /\ Len(proba) = Len(classes)
    /\ classes[1] > classes[2]
    /\ proba[1] # proba[2]
    /\ risk_score[1] > 0

AllOn(lvl) ==
    /\ Total(proba) > 0
    /\ \E i \in 1..Len(classes) : classes[i] = lvl /\ proba[i] = Total(proba)

Uniform5 ==
    /\ {classes[i] : i \in 1..Len(classes)} = {10, 20, 30, 40, 50}
    /\ Len(proba) = 5
    /\ \A i \in 1..5 : proba[i] = proba[1] /\ proba[i] > 0

\* C5: the score of a distribution over the levels 1..5 is within [0, 100], as
\* computed and as stored in every record; all on level 1 gives 100, all on
\* level 5 gives 20, the uniform distribution gives 60.
C5_ScoreRange ==
    /\ \A i \in 1..Len(patient_list) :
        patient_list[i].score >= 0 /\ patient_list[i].score <= 1000
    /\ risk_score # <<>> =>
        /\ risk_score[1] >= 0
        /\ risk_score[1] <= 100 * risk_score[2]
        /\ patient_list[Len(patient_list)].score = round1(risk_score[1], risk_score[2])
        /\ AllOn(10) => patient_list[Len(patient_list)].score = 1000
        /\ AllOn(50) => patient_list[Len(patient_list)].score = 200
        /\ Uniform5 => patient_list[Len(patient_list)].score = 600

C5_Witness ==
    /\ risk_score # <<>>
    /\ \E i, j, k \in 1..Len(patient_list) :
        /\ patient_list[i].score = 1000
        /\ patient_list[j].score = 200
        /\ patient_list[k].score = 600

\* C6: the row handed to the classifier has the nine columns in the fixed
\* order, the eight inputs unchanged, and a finite shock index equal to
\* heart rate / systolic pressure (0 for a systolic pressure of 0).
C6_FeatureRow ==
    final_data # <<>> =>
        /\ [i \in 1..Len(final_data) |-> final_data[i][1]]
              = <<"anchor_age", "temperature_y", "heartrate_y", "resprate_y",
                  "o2sat_y", "sbp_y", "dbp_y", "pain_y_numeric", "shock_index_y">>
        /\ final_data[1][2] = form.vitals.anchor_age
        /\ final_data[2][2] = form.vitals.temperature_y
        /\ final_data[3][2] = form.vitals.heartrate_y
        /\ final_data[4][2] = form.vitals.resprate_y
        /\ final_data[5][2] = form.vitals.o2sat_y
        /\ final_data[6][2] = form.vitals.sbp_y
        /\ final_data[7][2] = form.vitals.dbp_y
        /\ final_data[8][2] = form.vitals.pain_y_numeric
        /\ final_data[9][2].kind = "finite"
        /\ form.vitals.sbp_y >= 1 =>
              final_data[9][2].num * form.vitals.sbp_y
                  = form.vitals.heartrate_y * final_data[9][2].den
        /\ form.vitals.sbp_y = 0 => final_data[9][2].num = 0

C6_Witness ==
    /\ final_data # <<>>
    /\ form.vitals.heartrate_y = 300
    /\ final_data[9][2].num = 3
    /\ final_data[9][2].den = 2

\* C7: the run of a reset draws all the records and leaves the list empty, and
\* the run that follows draws the empty queue.
C7_ResetClearsAll ==
    [][/\ pc' = "rerun" =>
            /\ patient_list' = <<>>
            /\ Len(view'.rows) = Len(patient_list)
       /\ pc = "rerun" =>
            /\ pc' = "idle"
            /\ patient_list' = <<>>
            /\ view'.kind = "info"
            /\ view'.rows = <<>>]_vars

C7_Witness == pc = "rerun" /\ Len(view.rows) >= 2 /\ patient_list = <<>>

\* C8: a submission with a name and a classifier that answered appends one
\* record at the end whatever its score; a step that changes the list either
\* appends one record to it or is the reset that empties it.
C8_AppendOnly ==
    [][/\ (msg' # "none" /\ form'.p_name # "" /\ proba' # <<>>) =>
            /\ msg' = "success"
            /\ Len(patient_list') = Len(patient_list) + 1
            /\ SubSeq(patient_list', 1, Len(patient_list)) = patient_list
            /\ patient_list'[Len(patient_list')].name = form'.p_name
       /\ patient_list' # patient_list =>
            \/ /\ Len(patient_list') = Len(patient_list) + 1
               /\ SubSeq(patient_list', 1, Len(patient_list)) = patient_list
            \/ pc' = "rerun" /\ patient_list' = <<>>]_vars

\* a record of a higher score registered behind one of a lower score
C8_Witness ==
    /\ msg = "success"
    /\ Len(patient_list) >= 2
    /\ patient_list[Len(patient_list)].score > patient_list[1].score

\* C9: a run that draws the queue keeps the stored records in their stored
\* order, and with nothing registered it draws the view drawn before.
C9_ViewKeepsStored ==
    [][(pc = "idle" /\ pc' = "idle" /\ view'.kind # "none") =>
            /\ Len(patient_list') >= Len(patient_list)
            /\ \A i \in 1..Len(patient_list) : patient_list'[i] = patient_list[i]
            /\ (Len(patient_list') = Len(patient_list) /\ view.kind # "none")
                    => view' = view]_vars

\* the queue drawn again with nothing registered, its stored order not sorted
C9_Witness ==
    /\ msg = "warning"
    /\ view.kind = "table"
    /\ view.rows # patient_list

\* C10: a probability array shorter or longer than the class list yields no
\* risk score and no record.
C10_LengthMismatchFails ==
    (final_data # <<>> /\ Len(proba) # Len(classes)) =>
        (risk_score = <<>> /\ msg # "success")

====
